---- MODULE Spec2Model ----
(***************************************************************************)
(* Charge/discharge window selection of laddtider.py (the any-hour greedy  *)
(* variant) and laddtider_simple.py (the day-segment variant).             *)
(*                                                                         *)
(* A timestamp is an instant: the number of whole hours elapsed since the  *)
(* local midnight that starts the first day of a 31-day month.  Timestamps *)
(* are compared, subtracted and looked up as instants, as aware datetimes  *)
(* are; their wall-clock fields (.day, .hour) follow the local clock, which*)
(* may be set back or forward by one hour at some instant.  A series holds *)
(* one entry per timestamp; a cost is an integer number of ore/kWh.  An    *)
(* average is kept as the exact fraction <<sum, count>>: with small        *)
(* integer costs the float comparisons of the source agree with the exact  *)
(* ones.                                                                   *)
(***************************************************************************)
EXTENDS Integers, Sequences, FiniteSets

\* ---------------------------------------------------------------- bounds
\* First hour slot an input series may hold (23:00 of the first day).
FirstHour == 23
\* Number of consecutive hour slots an input series is drawn from.
NumSlots == 5
\* Costs are drawn from 1..MaxPrice.
MaxPrice == 3
\* Required margins are drawn from 1..MaxMargin (Config.MARGIN_REQUIRED is
\* positive); the margin comparison also starts from a margin of 0.
MaxMargin == 1

\* In the margin comparison costs are drawn from 1..MaxPriceMargin.
MaxPriceMargin == 4
\* Instant of a clock change before the hour slots (03:00 of the first day).
EarlyChange == 3
\* Instant of a clock change among the hour slots (02:00 of the second day).
LateChange == 26

Slots == FirstHour..(FirstHour + NumSlots - 1)
Prices == 1..MaxPrice
Margins == 1..MaxMargin
\* The local clock: no change, or set back or forward by one hour at an
\* instant.
Clocks ==
  {[at |-> 0, by |-> 0]}
    \cup {[at |-> a, by |-> d] : a \in {EarlyChange, LateChange}, d \in {-1, 1}}

VARIABLES
  price_times,          \* sorted list of <<time, cost>>
  clock,                \* the local time zone's clock change
  schedule,             \* the lines main prints
  margin,               \* Config.MARGIN_REQUIRED
  pc,                   \* position in find_charge_discharge_hours / main
  i,                    \* index of the block-enumeration loop (1-based)
  block,                \* the block built by the last enumeration step
  charging_blocks,      \* candidate blocks, sorted once pc passes "sort"
  k,                    \* index of the greedy loop (1-based)
  all_charge_hours,
  all_discharge_hours,
  used_hours,
  decisions,
  result,               \* the returned pair (charge hours, discharge hours)
  groups,               \* main's schedule groups
  margin2,              \* second margin of the margin comparison
  charging_blocks2,     \* candidate blocks under margin2
  result2,              \* result under margin2
  charge_blocks,        \* laddtider_simple: <<block, avg_price>> list
  discharge_candidates  \* laddtider_simple: set of discharge hours

vars == <<price_times, clock, schedule, margin, pc, i, block, charging_blocks, k,
          all_charge_hours, all_discharge_hours, used_hours, decisions,
          result, groups, margin2, charging_blocks2, result2,
          charge_blocks, discharge_candidates>>

\* ------------------------------------------------------- datetime helpers
\* astimezone(): the wall-clock reading of instant t, in hours since the
\* midnight that starts the month.
Wall(t) == IF t >= clock.at THEN t + clock.by ELSE t
\* datetime.day of a timestamp: the day of the month.
Day(t) == ((Wall(t) \div 24) % 31) + 1
\* datetime.hour of a timestamp.
Hour(t) == Wall(t) % 24

\* ------------------------------------------------------ sequence helpers
Range(s) == {s[n] : n \in 1..Len(s)}

RECURSIVE SumSeq(_)
SumSeq(s) == IF s = <<>> THEN 0 ELSE Head(s) + SumSeq(Tail(s))

\* The times of a list of <<time, cost>> pairs.
TimesOf(s) == [n \in 1..Len(s) |-> s[n][1]]
\* The costs of a list of <<time, cost>> pairs.
PricesOf(s) == [n \in 1..Len(s) |-> s[n][2]]

\* list[from:] of Python, for a 1-based first index.
Suffix(s, from) == IF from > Len(s) THEN <<>> ELSE SubSeq(s, from, Len(s))

\* Insert x into an ascending list after every element that is <= x.
RECURSIVE InsertTime(_, _)
InsertTime(s, x) ==
  IF s = <<>> THEN <<x>>
  ELSE IF x < Head(s) THEN <<x>> \o s
  ELSE <<Head(s)>> \o InsertTime(Tail(s), x)

\* sorted(list of datetimes)
RECURSIVE SortedTimes(_)
SortedTimes(s) ==
  IF s = <<>> THEN <<>>
  ELSE InsertTime(SortedTimes(SubSeq(s, 1, Len(s) - 1)), s[Len(s)])

\* The chronologically sorted series over the hours H with costs f.
RECURSIVE MkSeries(_, _)
MkSeries(H, f) ==
  IF H = {} THEN <<>>
  ELSE LET t == CHOOSE x \in H : \A y \in H : x <= y
       IN  <<(<<t, f[t]>>)>> \o MkSeries(H \ {t}, f)

\* ------------------------------------------------------------- averages
\* sum(block_prices) / len(block_prices), as an exact fraction.
Avg(ps) == <<SumSeq(ps), Len(ps)>>
AvgLess(a, b) == a[1] * b[2] < b[1] * a[2]
AvgEq(a, b) == a[1] * b[2] = b[1] * a[2]

\* Mutant: the margin is left out of the comparison.
MeetsMargin_NoMargin(p, avg, m) == p * avg[2] >= avg[1]

\* Mutant: the margin is subtracted instead of added.
MeetsMargin_Subtracted(p, avg, m) == p * avg[2] >= avg[1] - m * avg[2]

\* p >= avg_price + MARGIN_REQUIRED
MeetsMargin(p, avg, m) == p * avg[2] >= avg[1] + m * avg[2]

\* ------------------------------------------- laddtider.py: candidate blocks
\* range(3): a block holds at most this many hours.
MaxBlockLen == 3

\* Mutant: the day check is missing.
CrossesMidnight_Never(pt, idx, j) == FALSE

\* "Stop if we cross midnight": entry i+j is on another day than entry i.
CrossesMidnight(pt, idx, j) == Day(pt[idx + j][1]) # Day(pt[idx][1])

\* "Stop if hours aren't consecutive": entry i+j is not one hour after the
\* last hour collected.
NotConsecutive(pt, idx, j, entries) ==
  pt[idx + j][1] - entries[Len(entries)][1] # 1

\* The inner loop over j: the entries collected from (1-based) index idx on,
\* j of them collected so far.
RECURSIVE ExtendBlock(_, _, _, _)
ExtendBlock(pt, idx, j, entries) ==
  IF j >= MaxBlockLen THEN entries
  ELSE IF idx + j > Len(pt) THEN entries
  ELSE IF j > 0 /\ CrossesMidnight(pt, idx, j) THEN entries
  ELSE IF j > 0 /\ NotConsecutive(pt, idx, j, entries) THEN entries
  ELSE ExtendBlock(pt, idx, j + 1, Append(entries, pt[idx + j]))

\* The <<time, cost>> entries of the block anchored at index idx.
BlockEntries(pt, idx) == ExtendBlock(pt, idx, 0, <<>>)

\* Mutant: only entries on the day of the block are options.
DischargeOptions_SameDay(pt, idx, len, avg, m) ==
  SelectSeq(Suffix(pt, idx + len),
            LAMBDA e : MeetsMargin(e[2], avg, m) /\ Day(e[1]) = Day(pt[idx][1]))

\* The entries after the block whose cost reaches avg_price + margin.
DischargeOptions(pt, idx, len, avg, m) ==
  SelectSeq(Suffix(pt, idx + len), LAMBDA e : MeetsMargin(e[2], avg, m))

\* The dict appended to charging_blocks for the block anchored at idx.
CandidateBlock(pt, idx, m) ==
  LET entries == BlockEntries(pt, idx)
      avg == Avg(PricesOf(entries))
  IN  [times |-> TimesOf(entries),
       avg_price |-> avg,
       discharge_options |-> DischargeOptions(pt, idx, Len(entries), avg, m)]

\* Mutant: a block without discharge options is kept as a candidate too.
AppendCandidate_KeepAll(blocks, pt, idx, m) ==
  Append(blocks, CandidateBlock(pt, idx, m))

\* charging_blocks after the iteration for idx: the block is kept only when
\* it has at least one discharge option.
AppendCandidate(blocks, pt, idx, m) ==
  LET b == CandidateBlock(pt, idx, m)
  IN  IF b.times # <<>> /\ b.discharge_options # <<>>
      THEN Append(blocks, b) ELSE blocks

\* Sort key (avg_price, times[0].hour): a strictly before b.
KeyLess(a, b) ==
  \/ AvgLess(a.avg_price, b.avg_price)
  \/ /\ AvgEq(a.avg_price, b.avg_price)
     /\ Hour(a.times[1]) < Hour(b.times[1])

\* Insert x after every element whose key is not greater (stable).
RECURSIVE InsertBlock(_, _)
InsertBlock(s, x) ==
  IF s = <<>> THEN <<x>>
  ELSE IF KeyLess(x, Head(s)) THEN <<x>> \o s
  ELSE <<Head(s)>> \o InsertBlock(Tail(s), x)

\* charging_blocks.sort(key=...), a stable sort.
RECURSIVE SortBlocks(_)
SortBlocks(s) ==
  IF s = <<>> THEN <<>>
  ELSE InsertBlock(SortBlocks(SubSeq(s, 1, Len(s) - 1)), s[Len(s)])

\* ------------------------------------------- laddtider.py: greedy assignment
\* Mutant: the used-hours check of the block is missing.
BlockIsFree_Unchecked(b, used) == TRUE

\* not any(t in used_hours for t in block['times'])
BlockIsFree(b, used) == \A n \in 1..Len(b.times) : b.times[n] \notin used

\* Mutant: used discharge options are not dropped.
DischargeTimes_Unfiltered(b, used) == TimesOf(b.discharge_options)

\* [t for t, _ in block['discharge_options'] if t not in used_hours], read
\* after the block's own hours were added to used_hours.
DischargeTimes(b, used) ==
  SelectSeq(TimesOf(b.discharge_options), LAMBDA t : t \notin used)

\* One iteration of the greedy loop on block b.
GreedyStep(st, b) ==
  IF ~BlockIsFree(b, st.used_hours) THEN st
  ELSE LET used1 == st.used_hours \cup Range(b.times)
           discharge_times == DischargeTimes(b, used1)
       IN  [all_charge_hours |-> st.all_charge_hours \o b.times,
            all_discharge_hours |-> st.all_discharge_hours \o discharge_times,
            used_hours |-> used1 \cup Range(discharge_times),
            decisions |-> Append(st.decisions,
                            [charge_times |-> b.times,
                             charge_price |-> b.avg_price,
                             discharge_times |-> discharge_times])]

\* The returned pair: discharge hours that are also charge hours removed,
\* both lists sorted.
FinalResult(charge, discharge) ==
  [charge_hours |-> SortedTimes(charge),
   discharge_hours |->
     SortedTimes(SelectSeq(SortedTimes(discharge),
                           LAMBDA t : t \notin Range(charge)))]

\* ------------------------------------------------- laddtider.py: main groups
\* Insert event x after every event that is not later (stable sort by time).
RECURSIVE InsertEvent(_, _)
InsertEvent(s, x) ==
  IF s = <<>> THEN <<x>>
  ELSE IF x[1] < Head(s)[1] THEN <<x>> \o s
  ELSE <<Head(s)>> \o InsertEvent(Tail(s), x)

RECURSIVE SortEvents(_)
SortEvents(s) ==
  IF s = <<>> THEN <<>>
  ELSE InsertEvent(SortEvents(SubSeq(s, 1, Len(s) - 1)), s[Len(s)])

\* all_events: charge events, then discharge events, sorted by time.
AllEvents(res) ==
  SortEvents([n \in 1..Len(res.charge_hours) |-> <<res.charge_hours[n], "+">>]
             \o [n \in 1..Len(res.discharge_hours) |->
                   <<res.discharge_hours[n], "-">>])

\* Mutant: the action of the event is not compared.
JoinsGroup_AnyAction(event, last) == event[1] - last[1] = 1

\* An event joins the current group when it is one hour after the group's
\* last event and has the same action.
JoinsGroup(event, last) == event[1] - last[1] = 1 /\ event[2] = last[2]

\* The grouping loop: gs are the closed groups, cur the current group.
RECURSIVE GroupEvents(_, _, _)
GroupEvents(rest, gs, cur) ==
  IF rest = <<>> THEN Append(gs, cur)
  ELSE IF JoinsGroup(Head(rest), cur[Len(cur)])
       THEN GroupEvents(Tail(rest), gs, Append(cur, Head(rest)))
       ELSE GroupEvents(Tail(rest), Append(gs, cur), <<Head(rest)>>)

\* groups of main, from the returned pair.
MainGroups(res) ==
  LET all_events == AllEvents(res)
  IN  IF all_events = <<>> THEN <<>>
      ELSE GroupEvents(Tail(all_events), <<>>, <<Head(all_events)>>)

\* The printed line of a group, "HH:MM-HH:MM/1234567/action": the wall-clock
\* <<hour, minute>> of its first hour, that of the hour after its last one,
\* or 23:59 when its last hour is 23:00, and its action.
GroupRange(g) ==
  [start |-> <<Hour(g[1][1]), 0>>,
   end |-> IF Hour(g[Len(g)][1]) = 23 \/ (Hour(g[Len(g)][1]) + 1) % 24 = 0
           THEN <<23, 59>>
           ELSE <<(Hour(g[Len(g)][1]) + 1) % 24, 0>>,
   action |-> g[1][2]]

\* --------------------------------------------- laddtider.py as a function
RECURSIVE EnumerateBlocks(_, _, _, _)
EnumerateBlocks(pt, idx, m, blocks) ==
  IF idx > Len(pt) THEN blocks
  ELSE EnumerateBlocks(pt, idx + 1, m, AppendCandidate(blocks, pt, idx, m))

\* charging_blocks as the greedy loop reads it.
ChargingBlocks(pt, m) == SortBlocks(EnumerateBlocks(pt, 1, m, <<>>))

EmptyAssignment ==
  [all_charge_hours |-> <<>>, all_discharge_hours |-> <<>>,
   used_hours |-> {}, decisions |-> <<>>]

RECURSIVE GreedyLoop(_, _)
GreedyLoop(st, blocks) ==
  IF blocks = <<>> THEN st
  ELSE GreedyLoop(GreedyStep(st, Head(blocks)), Tail(blocks))

\* The greedy loop and the return, from the sorted candidate blocks.
AssignAndReturn(blocks) ==
  LET st == GreedyLoop(EmptyAssignment, blocks)
  IN  FinalResult(st.all_charge_hours, st.all_discharge_hours)

\* find_charge_discharge_hours on a non-empty sorted series.
FindChargeDischargeHours(pt, m) == AssignAndReturn(ChargingBlocks(pt, m))

\* ------------------------------------------------------------ main model
NoResult == [charge_hours |-> <<>>, discharge_hours |-> <<>>]

\* The input series: any set of hour slots, each with a cost.
InitSeries ==
  \E H \in SUBSET Slots : \E f \in [H -> Prices] : price_times = MkSeries(H, f)

Init ==
  /\ InitSeries
  /\ clock \in Clocks
  /\ schedule = <<>>
  /\ margin \in Margins
  /\ pc = "start"
  /\ i = 1
  /\ block = <<>>
  /\ charging_blocks = <<>>
  /\ k = 1
  /\ all_charge_hours = <<>>
  /\ all_discharge_hours = <<>>
  /\ used_hours = {}
  /\ decisions = <<>>
  /\ result = NoResult
  /\ groups = <<>>
  /\ margin2 = margin
  /\ charging_blocks2 = <<>>
  /\ result2 = NoResult
  /\ charge_blocks = <<>>
  /\ discharge_candidates = {}

\* "if not price_times: sys.exit(1)"
CheckData ==
  /\ pc = "start"
  /\ pc' = IF price_times = <<>> THEN "exit" ELSE "blocks"
  /\ UNCHANGED <<price_times, clock, schedule, margin, i, block, charging_blocks, k,
                 all_charge_hours, all_discharge_hours, used_hours, decisions,
                 result, groups, margin2, charging_blocks2, result2,
                 charge_blocks, discharge_candidates>>

\* One iteration of "for i in range(len(price_times))".
EnumerateBlock ==
  /\ pc = "blocks"
  /\ i <= Len(price_times)
  /\ block' = BlockEntries(price_times, i)
  /\ charging_blocks' = AppendCandidate(charging_blocks, price_times, i, margin)
  /\ i' = i + 1
  /\ UNCHANGED <<price_times, clock, schedule, margin, pc, k,
                 all_charge_hours, all_discharge_hours, used_hours, decisions,
                 result, groups, margin2, charging_blocks2, result2,
                 charge_blocks, discharge_candidates>>

\* The enumeration loop is over: charging_blocks.sort(...).
SortCandidates ==
  /\ pc = "blocks"
  /\ i > Len(price_times)
  /\ charging_blocks' = SortBlocks(charging_blocks)
  /\ pc' = "assign"
  /\ UNCHANGED <<price_times, clock, schedule, margin, i, block, k,
                 all_charge_hours, all_discharge_hours, used_hours, decisions,
                 result, groups, margin2, charging_blocks2, result2,
                 charge_blocks, discharge_candidates>>

\* One iteration of "for block in charging_blocks".
Assign ==
  /\ pc = "assign"
  /\ k <= Len(charging_blocks)
  /\ LET st == GreedyStep([all_charge_hours |-> all_charge_hours,
                           all_discharge_hours |-> all_discharge_hours,
                           used_hours |-> used_hours,
                           decisions |-> decisions], charging_blocks[k])
     IN  /\ all_charge_hours' = st.all_charge_hours
         /\ all_discharge_hours' = st.all_discharge_hours
         /\ used_hours' = st.used_hours
         /\ decisions' = st.decisions
  /\ k' = k + 1
  /\ UNCHANGED <<price_times, clock, schedule, margin, pc, i, block, charging_blocks,
                 result, groups, margin2, charging_blocks2, result2,
                 charge_blocks, discharge_candidates>>

\* The greedy loop is over: filter, sort and return.
Return ==
  /\ pc = "assign"
  /\ k > Len(charging_blocks)
  /\ result' = FinalResult(all_charge_hours, all_discharge_hours)
  /\ pc' = "returned"
  /\ UNCHANGED <<price_times, clock, schedule, margin, i, block, charging_blocks, k,
                 all_charge_hours, all_discharge_hours, used_hours, decisions,
                 groups, margin2, charging_blocks2, result2,
                 charge_blocks, discharge_candidates>>

\* main: build the schedule groups from the returned hours.
BuildGroups ==
  /\ pc = "returned"
  /\ groups' = MainGroups(result)
  /\ pc' = "done"
  /\ UNCHANGED <<price_times, clock, schedule, margin, i, block, charging_blocks, k,
                 all_charge_hours, all_discharge_hours, used_hours, decisions,
                 result, margin2, charging_blocks2, result2,
                 charge_blocks, discharge_candidates>>

\* main: print one line per group.
PrintSchedule ==
  /\ pc = "done"
  /\ schedule' = [n \in 1..Len(groups) |-> GroupRange(groups[n])]
  /\ pc' = "printed"
  /\ UNCHANGED <<price_times, clock, margin, i, block, charging_blocks, k,
                 all_charge_hours, all_discharge_hours, used_hours, decisions,
                 result, groups, margin2, charging_blocks2, result2,
                 charge_blocks, discharge_candidates>>

Next ==
  \/ CheckData
  \/ EnumerateBlock
  \/ SortCandidates
  \/ Assign
  \/ Return
  \/ BuildGroups
  \/ PrintSchedule

Spec == Init /\ [][Next]_vars

\* ------------------------------------------------- two margins, one series
\* The same series run under margin and under a larger margin2.  The series
\* holds consecutive hours, as the price feed delivers them.
InitMargin ==
  /\ \E a, b \in Slots :
       /\ a <= b
       /\ \E f \in [a..b -> 1..MaxPriceMargin] : price_times = MkSeries(a..b, f)
  /\ clock \in Clocks
  /\ schedule = <<>>
  /\ margin \in {0} \cup Margins
  /\ margin2 \in Margins
  /\ margin < margin2
  /\ pc = "first"
  /\ i = 1
  /\ block = <<>>
  /\ charging_blocks = <<>>
  /\ k = 1
  /\ all_charge_hours = <<>>
  /\ all_discharge_hours = <<>>
  /\ used_hours = {}
  /\ decisions = <<>>
  /\ result = NoResult
  /\ groups = <<>>
  /\ charging_blocks2 = <<>>
  /\ result2 = NoResult
  /\ charge_blocks = <<>>
  /\ discharge_candidates = {}

\* find_charge_discharge_hours(prices) with MARGIN_REQUIRED = margin.
RunFirst ==
  /\ pc = "first"
  /\ charging_blocks' = ChargingBlocks(price_times, margin)
  /\ result' = AssignAndReturn(charging_blocks')
  /\ pc' = "second"
  /\ UNCHANGED <<price_times, clock, schedule, margin, i, block, k,
                 all_charge_hours, all_discharge_hours, used_hours, decisions,
                 groups, margin2, charging_blocks2, result2,
                 charge_blocks, discharge_candidates>>

\* find_charge_discharge_hours(prices) with MARGIN_REQUIRED = margin2.
RunSecond ==
  /\ pc = "second"
  /\ charging_blocks2' = ChargingBlocks(price_times, margin2)
  /\ result2' = AssignAndReturn(charging_blocks2')
  /\ pc' = "compared"
  /\ UNCHANGED <<price_times, clock, schedule, margin, i, block, charging_blocks, k,
                 all_charge_hours, all_discharge_hours, used_hours, decisions,
                 result, groups, margin2,
                 charge_blocks, discharge_candidates>>

NextMargin ==
  \/ RunFirst
  \/ RunSecond

SpecMargin == InitMargin /\ [][NextMargin]_vars

\* ------------------------------------------------------ laddtider_simple.py
\* Config.MARGIN_REQUIRED of laddtider_simple.py (ore/kWh).
SimpleMargin == 25
\* Hour slots 0..SimpleNight-1 of the night segment may hold an entry.
SimpleNight == 4
\* Hour slots 12..12+SimpleDay-1 of the afternoon segment may hold an entry.
SimpleDay == 4
\* Costs are SimpleMargin times a level in 1..SimpleLevels.
SimpleLevels == 2

SimpleSlots == (0..(SimpleNight - 1)) \cup (12..(12 + SimpleDay - 1))
SimplePrices == {SimpleMargin * l : l \in 1..SimpleLevels}

\* day_segments: the entries of 00:00-05:00 and those of 12:00-16:00.
DaySegments(pt) ==
  << SelectSeq(pt, LAMBDA e : 0 <= Hour(e[1]) /\ Hour(e[1]) < 5),
     SelectSeq(pt, LAMBDA e : 12 <= Hour(e[1]) /\ Hour(e[1]) < 16) >>

\* The scan for the cheapest 3 entries in a row: n is the (1-based) start
\* tried next, best the <<block, avg_price>> found so far (<<>> for none).
RECURSIVE CheapestScan(_, _, _)
CheapestScan(segment, n, best) ==
  IF n > Len(segment) - 2 THEN best
  ELSE LET entries == SubSeq(segment, n, n + 2)
           avg == Avg(PricesOf(entries))
       IN  IF best = <<>> \/ AvgLess(avg, best[2])
           THEN CheapestScan(segment, n + 1, <<TimesOf(entries), avg>>)
           ELSE CheapestScan(segment, n + 1, best)

\* charge_blocks after one segment was handled.
SimpleSegmentBlocks(blocks, segment) ==
  IF Len(segment) < 3 THEN blocks
  ELSE LET best == CheapestScan(segment, 1, <<>>)
       IN  IF best # <<>> THEN Append(blocks, best) ELSE blocks

\* Insert block x by start time (stable).
RECURSIVE InsertByStart(_, _)
InsertByStart(s, x) ==
  IF s = <<>> THEN <<x>>
  ELSE IF x[1][1] < Head(s)[1][1] THEN <<x>> \o s
  ELSE <<Head(s)>> \o InsertByStart(Tail(s), x)

\* charge_blocks.sort(key=start time of block)
RECURSIVE SortByStart(_)
SortByStart(s) ==
  IF s = <<>> THEN <<>>
  ELSE InsertByStart(SortByStart(SubSeq(s, 1, Len(s) - 1)), s[Len(s)])

\* The hours after the block's end whose cost reaches avg_price + margin.
SimpleDischarge(pt, blk, avg) ==
  {e[1] : e \in {x \in Range(pt) :
                   x[1] > blk[Len(blk)] /\ MeetsMargin(x[2], avg, SimpleMargin)}}

\* sorted(discharge_candidates), a set of hours.
RECURSIVE SortedSet(_)
SortedSet(S) ==
  IF S = {} THEN <<>>
  ELSE LET t == CHOOSE x \in S : \A y \in S : x <= y
       IN  <<t>> \o SortedSet(S \ {t})

InitSimple ==
  /\ \E H \in SUBSET SimpleSlots : \E f \in [H -> SimplePrices] :
        price_times = MkSeries(H, f)
  /\ price_times # <<>>
  /\ clock \in Clocks
  /\ schedule = <<>>
  /\ margin = SimpleMargin
  /\ pc = "segments"
  /\ i = 1
  /\ block = <<>>
  /\ charging_blocks = <<>>
  /\ k = 1
  /\ all_charge_hours = <<>>
  /\ all_discharge_hours = <<>>
  /\ used_hours = {}
  /\ decisions = <<>>
  /\ result = NoResult
  /\ groups = <<>>
  /\ margin2 = SimpleMargin
  /\ charging_blocks2 = <<>>
  /\ result2 = NoResult
  /\ charge_blocks = <<>>
  /\ discharge_candidates = {}

\* One iteration of "for segment in day_segments".
SimpleSegment ==
  /\ pc = "segments"
  /\ i <= 2
  /\ charge_blocks' = SimpleSegmentBlocks(charge_blocks, DaySegments(price_times)[i])
  /\ i' = i + 1
  /\ UNCHANGED <<price_times, clock, schedule, margin, pc, block, charging_blocks, k,
                 all_charge_hours, all_discharge_hours, used_hours, decisions,
                 result, groups, margin2, charging_blocks2, result2,
                 discharge_candidates>>

\* The segment loop is over: sort the charge blocks by start time.
SimpleSort ==
  /\ pc = "segments"
  /\ i > 2
  /\ charge_blocks' = SortByStart(charge_blocks)
  /\ pc' = "process"
  /\ UNCHANGED <<price_times, clock, schedule, margin, i, block, charging_blocks, k,
                 all_charge_hours, all_discharge_hours, used_hours, decisions,
                 result, groups, margin2, charging_blocks2, result2,
                 discharge_candidates>>

\* One iteration of "for block, avg_price in charge_blocks".
SimpleProcess ==
  /\ pc = "process"
  /\ k <= Len(charge_blocks)
  /\ all_charge_hours' = all_charge_hours \o charge_blocks[k][1]
  /\ discharge_candidates' = discharge_candidates \cup
       SimpleDischarge(price_times, charge_blocks[k][1], charge_blocks[k][2])
  /\ k' = k + 1
  /\ UNCHANGED <<price_times, clock, schedule, margin, pc, i, block, charging_blocks,
                 all_discharge_hours, used_hours, decisions,
                 result, groups, margin2, charging_blocks2, result2,
                 charge_blocks>>

\* return (all_charge_hours, sorted(discharge_candidates))
SimpleReturn ==
  /\ pc = "process"
  /\ k > Len(charge_blocks)
  /\ result' = [charge_hours |-> all_charge_hours,
                discharge_hours |-> SortedSet(discharge_candidates)]
  /\ pc' = "returned"
  /\ UNCHANGED <<price_times, clock, schedule, margin, i, block, charging_blocks, k,
                 all_charge_hours, all_discharge_hours, used_hours, decisions,
                 groups, margin2, charging_blocks2, result2,
                 charge_blocks, discharge_candidates>>

NextSimple ==
  \/ SimpleSegment
  \/ SimpleSort
  \/ SimpleProcess
  \/ SimpleReturn

SpecSimple == InitSimple /\ [][NextSimple]_vars

\* ------------------------------------------------------------- properties
\* The cost of hour t in the series.
CostAt(t) == (CHOOSE e \in Range(price_times) : e[1] = t)[2]

\* The hours an assignment consumes.
Consumed(d) == Range(d.charge_times) \cup Range(d.discharge_times)

\* The candidate block a decision was committed from.
BlockOf(d) == CHOOSE b \in Range(charging_blocks) : b.times = d.charge_times

Last(s) == s[Len(s)]

\* The local calendar day of a timestamp, counted from the first day.
CalendarDay(t) == Wall(t) \div 24

\* C1: at every point of the greedy loop the hour sets consumed by any two
\* committed assignments are disjoint, no assignment discharges in one of
\* its own charge hours, no hour is a charge hour twice, and the returned
\* charge and discharge hours are disjoint.
C1_NoDoubleBooking ==
  /\ \A a, b \in 1..Len(decisions) :
       a # b => Consumed(decisions[a]) \cap Consumed(decisions[b]) = {}
  /\ \A a \in 1..Len(decisions) :
       Range(decisions[a].charge_times)
         \cap Range(decisions[a].discharge_times) = {}
  /\ Cardinality(Range(all_charge_hours)) = Len(all_charge_hours)
  /\ Range(all_charge_hours) \cap Range(all_discharge_hours) = {}
  /\ Range(result.charge_hours) \cap Range(result.discharge_hours) = {}

\* Two assignments are committed, a candidate was skipped, and hours of both
\* actions are returned.
C1_Witness ==
  /\ pc = "done"
  /\ Len(decisions) >= 2
  /\ Len(charging_blocks) > Len(decisions)
  /\ result.discharge_hours # <<>>

\* C2: every discharge hour of a committed assignment costs at least the
\* average cost of that assignment's charge hours plus the required margin.
C2_DischargeMeetsMargin ==
  \A a \in 1..Len(decisions) :
    LET d == decisions[a]
        len == Len(d.charge_times)
        sum == SumSeq([n \in 1..len |-> CostAt(d.charge_times[n])])
    IN  \A t \in Range(d.discharge_times) :
          CostAt(t) * len >= sum + margin * len

\* A block of several hours is committed with a discharge hour under a
\* positive margin.
C2_Witness ==
  /\ margin > 0
  /\ \E a \in 1..Len(decisions) :
       /\ Len(decisions[a].charge_times) >= 2
       /\ decisions[a].discharge_times # <<>>

\* C3: a committed assignment holds at most K x (block length) discharge
\* hours, K = 3 discharge hours per hour charged.
C3_CapacityRatio ==
  \A a \in 1..Len(decisions) :
    Len(decisions[a].discharge_times)
      <= MaxBlockLen * Len(decisions[a].charge_times)

\* C4 as stated: a larger margin never returns more discharge hours.
C4_MonotonicMargin ==
  pc = "compared" =>
    Len(result2.discharge_hours) <= Len(result.discharge_hours)

\* C4 amended: under the larger margin every candidate block is a candidate
\* under the smaller margin too, with a subset of its discharge options; the
\* candidates and their options never grow.
C4_OptionsShrink ==
  pc = "compared" =>
    /\ Len(charging_blocks2) <= Len(charging_blocks)
    /\ \A b2 \in Range(charging_blocks2) :
         \E b1 \in Range(charging_blocks) :
           /\ b1.times = b2.times
           /\ Range(b2.discharge_options) \subseteq Range(b1.discharge_options)

\* The larger margin drops a candidate and returns more discharge hours.
C4_Witness ==
  /\ pc = "compared"
  /\ margin < margin2
  /\ Len(charging_blocks2) < Len(charging_blocks)
  /\ Len(result2.discharge_hours) > Len(result.discharge_hours)

\* C5 as stated: every discharge hour of an assignment lies on the calendar
\* day of its block.
C5_SameDayDischarge ==
  \A a \in 1..Len(decisions) :
    \A t \in Range(decisions[a].discharge_times) :
      CalendarDay(t) = CalendarDay(decisions[a].charge_times[1])

\* C5 amended: every discharge hour of an assignment is later than the last
\* hour of its block, on that day or a following one; a block that ends at
\* 23:00 and has a later hour reaching its average plus the margin is kept
\* as a candidate.
C5_DischargeAfterBlock ==
  /\ \A a \in 1..Len(decisions) :
       \A t \in Range(decisions[a].discharge_times) :
         t > Last(decisions[a].charge_times)
  /\ pc \in {"assign", "returned", "done", "printed"} =>
       \A idx \in 1..Len(price_times) :
         LET times == TimesOf(BlockEntries(price_times, idx))
             len == Len(times)
             sum == SumSeq([n \in 1..len |-> CostAt(times[n])])
         IN  (/\ Hour(Last(times)) = 23
              /\ \E e \in Range(price_times) :
                   /\ e[1] > Last(times)
                   /\ e[2] * len >= sum + margin * len)
             => \E b \in Range(charging_blocks) : b.times = times

\* A block ending at 23:00 is committed with a discharge hour of the next day.
C5_Witness ==
  \E a \in 1..Len(decisions) :
    /\ Hour(Last(decisions[a].charge_times)) = 23
    /\ \E t \in Range(decisions[a].discharge_times) :
         CalendarDay(t) # CalendarDay(decisions[a].charge_times[1])

C7_BlockShape ==
  i > 1 =>
    LET idx == i - 1
        n == Len(block)
    IN  /\ 1 <= n /\ n <= 3
        /\ \A j \in 1..n : block[j] = price_times[idx + j - 1]
        /\ \A j \in 2..n :
             /\ CalendarDay(block[j][1]) = CalendarDay(block[1][1])
             /\ block[j][1] = block[j - 1][1] + 1
        /\ \/ n = 3
           \/ idx + n > Len(price_times)
           \/ CalendarDay(price_times[idx + n][1]) # CalendarDay(block[1][1])
           \/ price_times[idx + n][1] # block[n][1] + 1

\* A block stops short of three hours at the end of its day although the
\* next entry of the series is the hour after it.
C7_Witness ==
  /\ pc = "blocks"
  /\ i > 1
  /\ Len(block) < 3
  /\ i - 1 + Len(block) <= Len(price_times)
  /\ price_times[i - 1 + Len(block)][1] = Last(block)[1] + 1

\* The hours a group spans: from its first event's hour to its last one's.
Spans ==
  [n \in 1..Len(groups) |->
     [first |-> groups[n][1][1], last |-> Last(groups[n])[1],
      action |-> groups[n][1][2]]]

\* C8: main's ranges cover exactly the committed hours, each hour in exactly
\* one range and that range of the hour's action; they are in increasing
\* order and two successive ranges never have the same action while touching.
C8_RangesCoverCommitted ==
  pc \in {"done", "printed"} =>
    LET charged == UNION {Range(decisions[a].charge_times) :
                            a \in 1..Len(decisions)}
        discharged == UNION {Range(decisions[a].discharge_times) :
                               a \in 1..Len(decisions)}
        spans == Spans
        Holding(t) == {n \in 1..Len(spans) :
                         spans[n].first <= t /\ t <= spans[n].last}
    IN  /\ \A t \in charged :
             /\ Cardinality(Holding(t)) = 1
             /\ \A n \in Holding(t) : spans[n].action = "+"
        /\ \A t \in discharged :
             /\ Cardinality(Holding(t)) = 1
             /\ \A n \in Holding(t) : spans[n].action = "-"
        /\ \A n \in 1..Len(spans) :
             /\ spans[n].first <= spans[n].last
             /\ \A t \in spans[n].first..spans[n].last :
                  t \in charged \cup discharged
        /\ \A n \in 1..(Len(spans) - 1) :
             /\ spans[n].last < spans[n + 1].first
             /\ ~(spans[n].action = spans[n + 1].action
                  /\ spans[n].last + 1 = spans[n + 1].first)
        /\ pc = "printed" =>
             /\ Len(schedule) = Len(groups)
             /\ \A n \in 1..Len(schedule) :
                  schedule[n].action = spans[n].action

\* There are three ranges or more: one of several merged hours, one directly
\* followed by a range of the other action, one followed by a gap.
C8_Witness ==
  /\ pc = "done"
  /\ Len(groups) >= 3
  /\ \E n \in 1..Len(groups) : Len(groups[n]) >= 2
  /\ \E n \in 1..(Len(groups) - 1) : Spans[n].last + 1 = Spans[n + 1].first
  /\ \E n \in 1..(Len(groups) - 1) : Spans[n].last + 1 < Spans[n + 1].first

\* C9: laddtider_simple.py never returns an hour both as a charge hour and
\* as a discharge hour.
C9_SimpleDisjoint ==
  Range(result.charge_hours) \cap Range(result.discharge_hours) = {}

\* C10: under a positive margin, every returned charge hour has a later
\* returned discharge hour and every returned discharge hour has an earlier
\* returned charge hour; the schedule, when not empty, starts with a charge
\* range and ends with a discharge range.
C10_ChargeBeforeDischarge ==
  (margin > 0 /\ pc \in {"returned", "done", "printed"}) =>
    /\ \A c \in Range(result.charge_hours) :
         \E d \in Range(result.discharge_hours) : d > c
    /\ \A d \in Range(result.discharge_hours) :
         \E c \in Range(result.charge_hours) : c < d
    /\ (pc \in {"done", "printed"} /\ result.charge_hours # <<>>) =>
         /\ groups # <<>>
         /\ groups[1][1][2] = "+"
         /\ Last(groups)[1][2] = "-"
    /\ (pc = "printed" /\ result.charge_hours # <<>>) =>
         /\ schedule # <<>>
         /\ schedule[1].action = "+"
         /\ Last(schedule).action = "-"

\* Under a positive margin a block is committed with none of its own
\* discharge hours, and the schedule is built.
C10_Witness ==
  /\ margin > 0
  /\ pc = "done"
  /\ \E a \in 1..Len(decisions) : decisions[a].discharge_times = <<>>

====
